---- MODULE Spec2Model ----
(***************************************************************************)
(* Delivery-issue tracking API: refresh-token sessions, registration and   *)
(* cursor pagination, for the two backends of the repository:              *)
(*   "root"  the JavaScript backend (lib/auth.js, routes mounted at /)     *)
(*   "v1"    the TypeScript backend (routes mounted at /api/v1)            *)
(***************************************************************************)
EXTENDS Integers, Sequences, FiniteSets, TLC

VARIABLES
  variant,   \* which backend serves the requests: "root" or "v1"
  now,       \* the server clock, in millisecond ticks
  users,     \* table users: set of rows
  tokens,    \* table refresh_tokens: set of rows
  tokSeq,    \* number of refresh-token rows inserted so far (row ids, jti)
  issued,    \* refresh-token strings handed to clients so far
  dead,      \* history: token strings that were revoked or seen expired
  resp,      \* the last response sent: [op, status, uid, tok, body]
  reg,       \* requests handled step by step: handler -> its locals
  issues,    \* table issues: set of rows
  page,      \* the last response of a list request
  trav,      \* a client following nextCursor from the first page on
  hits       \* store of the rate limiter: client -> requests counted in the window

sessionVars == <<variant, now, users, tokens, tokSeq, issued, dead, resp>>
\* What the session actions leave alone.
nonSession == <<reg, issues, page, trav, hits>>
listVars == <<issues, page, trav, hits>>

vars == <<variant, now, users, tokens, tokSeq, issued, dead, resp, reg,
          issues, page, trav, hits>>

----------------------------------------------------------------------------
(* Bounds of the model.                                                    *)

\* The clock runs from 0 to MaxClock ticks.
MaxClock == 3
\* At most MaxIssued refresh-token rows are ever inserted.
MaxIssued == 3
\* At most MaxUsers users register.
MaxUsers == 2
\* At most MaxIssues issues are created.
MaxIssues == 3
\* While issues are created and listed the clock runs from 0 to MaxIssueClock.
MaxIssueClock == 1
\* List requests ask for 1..MaxLimit rows.
MaxLimit == 2
\* Number of concurrent registration requests.
NumRegProcs == 2
\* Ticks per second: jsonwebtoken stamps iat/exp in whole seconds, Date is in
\* milliseconds; 1000 ms are scaled down to MsPerSec ticks.
MsPerSec == 2
\* Lifetime of a refresh token in seconds: 7 days, scaled down.
RefreshTtlSec == 1

Variants == {"root", "v1"}
Emails == {"a@x.io", "A@x.io", "b@x.io"}
\* Every user registers with GoodPassword; logins try both.
GoodPassword == "Passw0rd!a"
Passwords == {GoodPassword, "Passw0rd!b"}

----------------------------------------------------------------------------
(* Pure helpers.                                                           *)

\* String.prototype.toLowerCase on the e-mail inputs of the model.
ToLowerCase(e) == IF e = "A@x.io" THEN "a@x.io" ELSE e

\* bcrypt.hash / bcrypt.compare: the hash is not the password, and compare
\* accepts exactly the password that was hashed.
HashPassword(p) == <<"bcrypt", p>>
VerifyPassword(p, h) == h = HashPassword(p)

\* Math.floor(Date.now() / 1000), the clock jsonwebtoken reads.
Sec(t) == t \div MsPerSec

\* storeRefreshToken: new Date(Date.now() + 7 days).
RefreshTtlMs == RefreshTtlSec * MsPerSec
ExpiresAtFor(t) == t + RefreshTtlMs

\* A token string that no server signed.
Forged == [sub |-> 0, iat |-> 0, exp |-> 0, signed |-> FALSE]

\* generateRefreshToken.  root: jwt.sign({userId}, secret, 7d): the string is
\* a function of the user id and the second of issue.  v1: jwt.sign({jti:
\* uuidv4()}, ...): the jti is fresh (uuid collisions are not modelled).
GenerateRefreshToken(v, userId, jti, t) ==
  [sub |-> IF v = "root" THEN userId ELSE jti,
   iat |-> Sec(t), exp |-> Sec(t) + RefreshTtlSec, signed |-> TRUE]

\* verifyRefreshToken (v1): jwt.verify checks the signature and throws
\* TokenExpiredError when clockTimestamp >= exp.
VerifyRefreshToken(tok, t) == tok.signed /\ Sec(t) < tok.exp

\* prisma.refreshToken.findUnique({where: {token}}): the rows with this token
\* (at most one, by refresh_tokens_token_key).
FindToken(store, tok) == {r \in store : r.token = tok}
FindUserByEmail(us, e) == {u \in us : u.email = e}
FindUserById(us, id) == {u \in us : u.id = id}

\* A users table without the unique index on email.
CreateUserOk_NoUnique(us, e) == TRUE

\* prisma.user.create: refused with P2002 when the e-mail is already stored
\* (unique index users_email_key).
CreateUserOk(us, e) == FindUserByEmail(us, e) = {}

\* The status the error middleware answers for a Prisma error code.
\* root errorHandler: P2002 -> 409, P2025 -> 404, otherwise 500.
\* v1 handlePrismaError: P2002 -> 409, P2025 -> 404, P2003/P2014 -> 400,
\* otherwise 500.
PrismaErrorStatus(v, code) ==
  CASE code = "P2002" -> 409
    [] code = "P2025" -> 404
    [] code \in {"P2003", "P2014"} -> IF v = "v1" THEN 400 ELSE 500
    [] OTHER -> 500

\* prisma.refreshToken.create: refused with P2002 when the token string is
\* already stored (unique index refresh_tokens_token_key).
CreateTokenOk(store, tok) == FindToken(store, tok) = {}
CreateToken(store, id, userId, tok, t) ==
  store \cup {[id |-> id, userId |-> userId, token |-> tok,
               expiresAt |-> ExpiresAtFor(t), revoked |-> FALSE]}

\* validateRefreshToken (root): the row, or none when it is missing, revoked
\* or expiresAt < new Date().
ValidateRefreshToken(store, tok, t) ==
  {r \in FindToken(store, tok) : ~r.revoked /\ ~(r.expiresAt < t)}

\* revokeRefreshToken (root): updateMany({where: {token}, data: {revoked: true}}).
RevokeRefreshToken(store, tok) ==
  {IF r.token = tok THEN [r EXCEPT !.revoked = TRUE] ELSE r : r \in store}

\* A revokeAllUserTokens whose where clause is lost.
RevokeAllUserTokens_NoWhere(store, userId) ==
  {[r EXCEPT !.revoked = TRUE] : r \in store}

\* revokeAllUserTokens (root): updateMany({where: {userId}, data: {revoked: true}}).
RevokeAllUserTokens(store, userId) ==
  {IF r.userId = userId THEN [r EXCEPT !.revoked = TRUE] ELSE r : r \in store}

\* A purge that also deletes the rows whose expiresAt is the current time.
CleanupExpiredTokens_Lte(store, t) ==
  {r \in store : ~(r.expiresAt <= t \/ r.revoked)}

\* cleanupExpiredTokens (root): deleteMany({OR: [expiresAt < now, revoked]}).
CleanupExpiredTokens(store, t) ==
  {r \in store : ~(r.expiresAt < t \/ r.revoked)}

\* prisma.refreshToken.deleteMany({where: {token}}) (v1 logout).
DeleteTokensByToken(store, tok) == {r \in store : r.token # tok}
\* prisma.refreshToken.delete({where: {id}}) (v1 refresh, expired row).
DeleteTokenById(store, id) == {r \in store : r.id # id}

----------------------------------------------------------------------------
(* The session lifecycle: each action is one request handled to its end.   *)

\* root: registerSchema takes role from the body; v1: role is always 'user'.
RoleFor(v, role) == IF v = "root" THEN role ELSE "user"

\* The JSON body of a response: an error message ("" when none), the user
\* objects and the issue objects it carries.
Body(error, us, is) == [error |-> error, users |-> us, issues |-> is]
NoBody == Body("", {}, {})
ErrorBody(msg) == Body(msg, {}, {})

\* A user object that is the whole stored row.
ToUserPublic_WholeRow(u) == u

\* toUserPublic (v1) and the select / object literal of root: the stored
\* row restricted to id, email, role (name, company, createdAt not modelled).
ToUserPublic(u) == [id |-> u.id, email |-> u.email, role |-> u.role]

\* A response: the operation, its HTTP status, the caller and the token the
\* request was about (0 and Forged when it had none), and the body.
ReplyWith(op, status, uid, tok, body) ==
  [op |-> op, status |-> status, uid |-> uid, tok |-> tok, body |-> body]
ReplyTo(op, status, uid, tok) == ReplyWith(op, status, uid, tok, NoBody)
Reply(op, status) == ReplyTo(op, status, 0, Forged)

\* The error the login handlers throw when the e-mail is unknown and when
\* the password is wrong.  root: UnauthorizedError('Invalid credentials');
\* v1: ApiError('Authentication failed', 401, 'Invalid email or password').
LoginUnknownEmail(v) ==
  IF v = "root" THEN ErrorBody("Unauthorized: Invalid credentials")
  ELSE ErrorBody("Authentication failed: Invalid email or password")
\* A login that tells a wrong password from an unknown e-mail.
LoginWrongPassword_Distinct(v) == ErrorBody("Wrong password")
LoginWrongPassword(v) ==
  IF v = "root" THEN ErrorBody("Unauthorized: Invalid credentials")
  ELSE ErrorBody("Authentication failed: Invalid email or password")
UserIds == {u.id : u \in users}
TokenInputs == issued \cup {Forged}

\* Token strings whose row is expired at time t.
ExpiredAt(store, t) == {r.token : r \in {x \in store : x.expiresAt < t}}

\* The where clause of a list request; "" and 0 stand for an absent filter.
Where(type, severity, customerId) ==
  [type |-> type, severity |-> severity, customerId |-> customerId]

\* No list request answered yet; no traversal started.  A page is the request
\* (where, cursor, limit) with the response (items, hasMore, nextCursor).
NoCursor == <<"none">>
NoPage == [where |-> Where("", "", 0), cursor |-> NoCursor, limit |-> 0,
           items |-> <<>>, hasMore |-> FALSE, nextCursor |-> NoCursor]
NoTraversal == [phase |-> "idle", filter |-> Where("", "", 0), limit |-> 0,
                cursor |-> NoCursor, acc |-> <<>>, first |-> {}, last |-> {}]

\* The clients the rate limiter tells apart (keyGenerator: the IP address).
Clients == {"10.0.0.1", "10.0.0.2", "10.0.0.3"}
NoHits == [c \in Clients |-> 0]

RegProcs == 1..NumRegProcs
RegIdle == [pc |-> "idle", email |-> "", uid |-> 0, status |-> 0, err |-> "none",
            row |-> {}]

InitSession ==
  /\ variant \in Variants
  /\ now = 0
  /\ users = {}
  /\ tokens = {}
  /\ tokSeq = 0
  /\ issued = {}
  /\ dead = {}
  /\ resp = Reply("none", 0)
  /\ reg = [p \in RegProcs |-> RegIdle]
  /\ issues = {}
  /\ page = NoPage
  /\ trav = NoTraversal
  /\ hits = NoHits

\* Time passes.
Tick ==
  /\ now < MaxClock
  /\ now' = now + 1
  /\ dead' = dead \cup ExpiredAt(tokens, now + 1)
  /\ UNCHANGED <<variant, users, tokens, tokSeq, issued, resp>>
  /\ UNCHANGED nonSession

\* POST /auth/register, the handler run to its end without interleaving.
Register(e, pw, role) ==
  /\ tokSeq < MaxIssued
  /\ LET em == ToLowerCase(e)
         uid == Cardinality(users) + 1
         tok == GenerateRefreshToken(variant, uid, tokSeq + 1, now)
         user == [id |-> uid, email |-> em, password |-> HashPassword(pw),
                  role |-> RoleFor(variant, role)]
     IN IF FindUserByEmail(users, em) # {}
        THEN /\ resp' = Reply("register", 409)
             /\ UNCHANGED <<users, tokens, tokSeq, issued>>
        ELSE /\ Cardinality(users) < MaxUsers
             /\ users' = users \cup {user}
             /\ IF CreateTokenOk(tokens, tok)
                THEN /\ tokens' = CreateToken(tokens, tokSeq + 1, uid, tok, now)
                     /\ tokSeq' = tokSeq + 1
                     /\ issued' = issued \cup {tok}
                     /\ resp' = ReplyWith("register", 201, 0, Forged,
                                          Body("", {ToUserPublic(user)}, {}))
                ELSE /\ resp' = Reply("register", PrismaErrorStatus(variant, "P2002"))
                     /\ UNCHANGED <<tokens, tokSeq, issued>>
  /\ UNCHANGED <<variant, now, dead>>
  /\ UNCHANGED nonSession

\* The credentials name a stored user and its password.
ValidCredentials(e, pw) ==
  \E u \in FindUserByEmail(users, ToLowerCase(e)) : VerifyPassword(pw, u.password)

\* POST /auth/login.
Login(e, pw) ==
  /\ tokSeq < MaxIssued
  /\ LET us == FindUserByEmail(users, ToLowerCase(e))
     IN IF us = {}
        THEN /\ resp' = ReplyWith("login", 401, 0, Forged, LoginUnknownEmail(variant))
             /\ UNCHANGED <<tokens, tokSeq, issued>>
        ELSE LET u == CHOOSE x \in us : TRUE
                 tok == GenerateRefreshToken(variant, u.id, tokSeq + 1, now)
             IN IF ~VerifyPassword(pw, u.password)
                THEN /\ resp' = ReplyWith("login", 401, 0, Forged,
                                          LoginWrongPassword(variant))
                     /\ UNCHANGED <<tokens, tokSeq, issued>>
                ELSE IF CreateTokenOk(tokens, tok)
                THEN /\ tokens' = CreateToken(tokens, tokSeq + 1, u.id, tok, now)
                     /\ tokSeq' = tokSeq + 1
                     /\ issued' = issued \cup {tok}
                     /\ resp' = ReplyWith("login", 200, 0, Forged,
                                          Body("", {ToUserPublic(u)}, {}))
                ELSE \* P2002 from storeRefreshToken, mapped by errorHandler
                     /\ resp' = Reply("login", PrismaErrorStatus(variant, "P2002"))
                     /\ UNCHANGED <<tokens, tokSeq, issued>>
  /\ UNCHANGED <<variant, now, users, dead>>
  /\ UNCHANGED nonSession

\* The status POST /auth/refresh answers for token tok at time t.
RefreshStatus(v, store, tok, t) ==
  IF v = "root"
  THEN IF ValidateRefreshToken(store, tok, t) = {} THEN 401 ELSE 200
  ELSE IF ~VerifyRefreshToken(tok, t) THEN 401
       ELSE IF FindToken(store, tok) = {} THEN 401
       ELSE IF \E r \in FindToken(store, tok) : r.expiresAt < t THEN 401
       ELSE 200

\* A refresh that rotates: the presented token is consumed on success.
RefreshStore_Rotate(v, store, tok, t) ==
  IF RefreshStatus(v, store, tok, t) = 200 THEN DeleteTokensByToken(store, tok)
  ELSE store

\* The store after POST /auth/refresh: v1 deletes the row it finds expired.
RefreshStore(v, store, tok, t) ==
  IF v = "v1" /\ VerifyRefreshToken(tok, t)
     /\ (\E r \in FindToken(store, tok) : r.expiresAt < t)
  THEN LET r == CHOOSE x \in FindToken(store, tok) : TRUE
       IN DeleteTokenById(store, r.id)
  ELSE store

\* POST /auth/refresh.
Refresh(tok) ==
  /\ resp' = ReplyTo("refresh", RefreshStatus(variant, tokens, tok, now), 0, tok)
  /\ tokens' = RefreshStore(variant, tokens, tok, now)
  /\ UNCHANGED <<variant, now, users, tokSeq, issued, dead>>
  /\ UNCHANGED nonSession

\* The store after POST /auth/logout.
LogoutStore(v, store, tok) ==
  IF v = "root" THEN RevokeRefreshToken(store, tok)
  ELSE DeleteTokensByToken(store, tok)

\* A logout written with update/delete instead of updateMany/deleteMany:
\* P2025 when no row has the token, answered 404.
Logout_RequireRow(tok) ==
  /\ tokens' = LogoutStore(variant, tokens, tok)
  /\ dead' = dead \cup {r.token : r \in FindToken(tokens, tok)}
  /\ resp' = ReplyTo("logout", IF FindToken(tokens, tok) = {} THEN 404 ELSE 200, 0, tok)
  /\ UNCHANGED <<variant, now, users, tokSeq, issued>>
  /\ UNCHANGED nonSession

\* POST /auth/logout.
Logout(tok) ==
  /\ tokens' = LogoutStore(variant, tokens, tok)
  /\ dead' = dead \cup {r.token : r \in FindToken(tokens, tok)}
  /\ resp' = ReplyTo("logout", 200, 0, tok)
  /\ UNCHANGED <<variant, now, users, tokSeq, issued>>
  /\ UNCHANGED nonSession

\* POST /auth/logout-all (root), after authenticate set req.user to user uid.
LogoutAll(uid) ==
  /\ variant = "root"
  /\ tokens' = RevokeAllUserTokens(tokens, uid)
  /\ dead' = dead \cup {r.token : r \in {x \in tokens : x.userId = uid}}
  /\ resp' = ReplyTo("logoutAll", 200, uid, Forged)
  /\ UNCHANGED <<variant, now, users, tokSeq, issued>>
  /\ UNCHANGED nonSession

\* cleanupExpiredTokens (root), the maintenance purge.
Purge ==
  /\ variant = "root"
  /\ tokens' = CleanupExpiredTokens(tokens, now)
  /\ resp' = Reply("purge", 0)
  /\ UNCHANGED <<variant, now, users, tokSeq, issued, dead>>
  /\ UNCHANGED nonSession

----------------------------------------------------------------------------
(* The authenticate middleware and the role gates.                         *)

\* The Authorization header of a request.
NoHeader == [scheme |-> "none", token |-> Forged]
BasicHeader == [scheme |-> "Basic", token |-> Forged]
Bearer(tok) == [scheme |-> "Bearer", token |-> tok]

\* An access token signed for user uid that expires at second exp
\* (generateAccessToken), and one whose signature does not verify.
AccessTokenFor(uid, exp) == [sub |-> uid, iat |-> 0, exp |-> exp, signed |-> TRUE]
BadSignature(tok) == [tok EXCEPT !.signed = FALSE]

\* The headers requests come with: none, a non-Bearer one, and Bearer tokens
\* for the user ids given: one that is still valid at second lastSec, one
\* that expired, one with a bad signature.
Headers(ids, lastSec) ==
  {NoHeader, BasicHeader}
    \cup {Bearer(AccessTokenFor(u, lastSec + 1)) : u \in ids}
    \cup {Bearer(AccessTokenFor(u, 0)) : u \in ids}
    \cup {Bearer(BadSignature(AccessTokenFor(u, lastSec + 1))) : u \in ids}

\* extractBearerToken / authHeader.startsWith('Bearer ').
ExtractBearerToken(h) == IF h.scheme = "Bearer" THEN {h.token} ELSE {}

\* verifyAccessToken (v1) / verifyToken (root): jwt.verify of signature and
\* expiry (expired when the clock second has reached exp).
VerifyAccessToken(tok, t) == tok.signed /\ Sec(t) < tok.exp

\* An authenticate that trusts the token and does not load the user.
Authenticate_NoUserLookup(v, us, h, t) ==
  IF ExtractBearerToken(h) = {}
  THEN [status |-> 401, user |-> {}, error |-> "No token provided"]
  ELSE LET tok == CHOOSE x \in ExtractBearerToken(h) : TRUE
       IN IF ~VerifyAccessToken(tok, t)
          THEN [status |-> 401, user |-> {}, error |-> "Invalid token"]
          ELSE [status |-> 0, error |-> "",
                user |-> {[id |-> tok.sub, email |-> "", password |-> HashPassword(""),
                           role |-> RoleFor(v, "CUSTOMER")]}]

\* An authenticate that also wants a refresh token of the user that is stored
\* and not revoked.
Authenticate_SessionBound(v, us, h, t) ==
  IF ExtractBearerToken(h) = {}
  THEN [status |-> 401, user |-> {}, error |-> "No token provided"]
  ELSE LET tok == CHOOSE x \in ExtractBearerToken(h) : TRUE
       IN IF ~VerifyAccessToken(tok, t)
          THEN [status |-> 401, user |-> {}, error |-> "Invalid token"]
          ELSE IF FindUserById(us, tok.sub) = {}
          THEN [status |-> 401, user |-> {}, error |-> "User not found"]
          ELSE IF \A r \in tokens : r.userId = tok.sub => r.revoked
          THEN [status |-> 401, user |-> {}, error |-> "Session ended"]
          ELSE [status |-> 0, user |-> FindUserById(us, tok.sub), error |-> ""]

\* authenticate: 401 without a Bearer token, with a token that does not
\* verify, and when the user of the token is not stored; otherwise the user
\* is attached to the request (status 0: passed on to the next handler).
Authenticate(v, us, h, t) ==
  IF ExtractBearerToken(h) = {}
  THEN [status |-> 401, user |-> {}, error |-> "No token provided"]
  ELSE LET tok == CHOOSE x \in ExtractBearerToken(h) : TRUE
       IN IF ~VerifyAccessToken(tok, t)
          THEN [status |-> 401, user |-> {}, error |-> "Invalid token"]
          ELSE IF FindUserById(us, tok.sub) = {}
          THEN [status |-> 401, user |-> {}, error |-> "User not found"]
          ELSE [status |-> 0, user |-> FindUserById(us, tok.sub), error |-> ""]

\* An optionalAuth whose catch block hands the error on: next(error).
OptionalAuth_Strict(v, us, h, t, dbUp) ==
  LET toks == ExtractBearerToken(h)
      verified == {tok \in toks : VerifyAccessToken(tok, t)}
      threw == \/ v = "v1" /\ toks # {} /\ verified = {}
               \/ verified # {} /\ ~dbUp
  IN [user |-> IF threw THEN {} ELSE UNION {FindUserById(us, tok.sub) : tok \in verified},
      nexts |-> (IF threw THEN 0 ELSE 1) + (IF threw THEN 1 ELSE 0),
      errors |-> IF threw THEN 1 ELSE 0]

\* optionalAuth: the body of the try block ends with next(); it throws
\* before that when verifyAccessToken throws (v1; verifyToken of root returns
\* null instead) and when prisma.user.findUnique fails (dbUp false), and the
\* catch block then calls next() with no argument.  nexts counts the calls of
\* next, errors those that hand an error on; user is req.user.
OptionalAuth(v, us, h, t, dbUp) ==
  LET toks == ExtractBearerToken(h)
      verified == {tok \in toks : VerifyAccessToken(tok, t)}
      threw == \/ v = "v1" /\ toks # {} /\ verified = {}
               \/ verified # {} /\ ~dbUp
  IN [user |-> IF threw THEN {} ELSE UNION {FindUserById(us, tok.sub) : tok \in verified},
      nexts |-> (IF threw THEN 0 ELSE 1) + (IF threw THEN 1 ELSE 0),
      errors |-> 0]

\* A role gate that answers 401 to a caller of the wrong role.
RequireRole_Unauthorized(roles, user) ==
  IF user = {} THEN 401
  ELSE IF \A u \in user : u.role \notin roles THEN 401
  ELSE 0

\* requireRole (root) / authorize (v1): 401 without req.user, 403 when the
\* role of req.user is not among roles, otherwise passed on (0).
RequireRole(roles, user) ==
  IF user = {} THEN 401
  ELSE IF \A u \in user : u.role \notin roles THEN 403
  ELSE 0

\* The id of the user attached to the request, 0 when none is.
AttachedId(auth) == IF auth.user = {} THEN 0 ELSE (CHOOSE u \in auth.user : TRUE).id

\* The 401 of authenticate.
AuthReply(op, auth) == ReplyWith(op, 401, 0, Forged, ErrorBody(auth.error))

\* GET /auth/me (root): the stored row of req.user.id, selected without the
\* password hash.
Me(h) ==
  /\ variant = "root"
  /\ LET auth == Authenticate(variant, users, h, now)
     IN resp' = IF auth.status # 0 THEN AuthReply("me", auth)
                ELSE IF FindUserById(users, AttachedId(auth)) = {}
                THEN ReplyWith("me", 404, AttachedId(auth), Forged,
                               ErrorBody("User not found"))
                ELSE ReplyWith("me", 200, AttachedId(auth), Forged,
                       Body("", {ToUserPublic(u) :
                                   u \in FindUserById(users, AttachedId(auth))}, {}))
  /\ UNCHANGED <<variant, now, users, tokens, tokSeq, issued, dead>>
  /\ UNCHANGED nonSession

NextSession ==
  \/ Tick
  \/ \E e \in Emails : Register(e, GoodPassword, "CUSTOMER")
  \/ \E e \in Emails, pw \in Passwords : Login(e, pw)
  \/ \E tok \in TokenInputs : Refresh(tok)
  \/ \E tok \in TokenInputs : Logout(tok)
  \/ \E uid \in UserIds : LogoutAll(uid)
  \/ Purge

Spec == InitSession /\ [][NextSession]_vars

\* Registration, login and the profile request alone.
NextProfile ==
  \/ Tick
  \/ \E e \in Emails : Register(e, GoodPassword, "CUSTOMER")
  \/ \E e \in Emails, pw \in Passwords : Login(e, pw)
  \/ \E h \in Headers(1..(Cardinality(users) + 1), Sec(MaxClock)) : Me(h)

SpecProfile == InitSession /\ [][NextProfile]_vars

----------------------------------------------------------------------------
(* Claims about the session lifecycle.                                     *)

\* The validity the data model states: stored, not revoked, expiresAt > now.
StatedValid(store, tok, t) ==
  \E r \in store : r.token = tok /\ ~r.revoked /\ r.expiresAt > t

\* C1: a refresh presenting token t is answered 200 if and only if a stored
\* record for t exists, is not revoked and has expiresAt > now; in every other
\* case it is answered 401.
C1_RefreshIffValid ==
  [][\A tok \in TokenInputs : Refresh(tok) =>
       /\ resp'.status \in {200, 401}
       /\ resp'.status = 200 <=> StatedValid(tokens, tok, now)]_vars

\* C2: once a refresh token was revoked or has expired, no later refresh
\* presenting the same token string is answered 200.
C2_NoReactivation ==
  [][\A tok \in dead : Refresh(tok) => resp'.status # 200]_vars

\* C3: logout-all by user u marks every refresh token of u revoked, so that
\* each fails a later refresh, and changes no refresh token of another user.
C3_LogoutAllOwnTokensOnly ==
  [][\A u \in UserIds : LogoutAll(u) =>
       /\ resp'.status = 200
       /\ \A r \in tokens' : r.userId = u =>
            r.revoked /\ RefreshStatus(variant, tokens', r.token, now') = 401
       /\ {r.token : r \in {x \in tokens' : x.userId = u}}
            = {r.token : r \in {x \in tokens : x.userId = u}}
       /\ {r \in tokens' : r.userId # u} = {r \in tokens : r.userId # u}]_vars

\* C3 witness: logout-all of a user with a token has acted while an active
\* token of another user is stored.
C3_Witness ==
  /\ resp.op = "logoutAll"
  /\ \E r \in tokens : r.userId = resp.uid /\ r.revoked
  /\ \E q \in tokens : q.userId # resp.uid /\ ~q.revoked

\* C4: logout is answered 200 for any token string (stored and active,
\* revoked, or never stored), and a second logout with the same token leaves
\* the store as the first one left it.
C4_LogoutIdempotent ==
  [][\A tok \in TokenInputs : Logout(tok) =>
       /\ resp'.status = 200
       /\ LogoutStore(variant, tokens', tok) = tokens'
       /\ \A r \in tokens' : r.token # tok => r \in tokens
       /\ \A r \in tokens : r.token # tok => r \in tokens']_vars

\* C4 witness: a logout was answered for a token that no row holds (never
\* stored, or deleted by an earlier logout) while other rows are stored.
C4_Witness ==
  /\ resp.op = "logout"
  /\ resp.status = 200
  /\ FindToken(tokens, resp.tok) = {}
  /\ tokens # {}

\* C5: a refresh answered 200 creates, revokes and deletes no refresh-token
\* record, and the same token presented again is answered 200 again.
C5_RefreshDoesNotRotate ==
  [][\A tok \in TokenInputs : (Refresh(tok) /\ resp'.status = 200) =>
       /\ tokens' = tokens
       /\ RefreshStatus(variant, tokens', tok, now') = 200]_vars

\* C5 witness: a refresh was answered 200 and the token's row is still stored.
C5_Witness ==
  /\ resp.op = "refresh"
  /\ resp.status = 200
  /\ \E r \in tokens : r.token = resp.tok /\ ~r.revoked

\* C7: every login with valid credentials and every valid registration is
\* answered with success and stores exactly one new active refresh-token
\* row whose token string no stored row had.
StoresOneFreshToken ==
  \E r \in tokens' :
    /\ r \notin tokens
    /\ tokens' = tokens \cup {r}
    /\ ~r.revoked /\ r.expiresAt > now
    /\ \A q \in tokens : q.token # r.token

C7_LoginIssuesFreshToken ==
  [][/\ \A e \in Emails, pw \in Passwords :
          (ValidCredentials(e, pw) /\ Login(e, pw)) =>
            (resp'.status = 200 /\ StoresOneFreshToken)
     /\ \A e \in Emails :
          (FindUserByEmail(users, ToLowerCase(e)) = {}
             /\ Register(e, GoodPassword, "CUSTOMER")) =>
            (resp'.status = 201 /\ StoresOneFreshToken)]_vars

\* C19: no response of register, login or GET /auth/me carries a password or
\* password hash: every user object in a response is a stored row restricted
\* to its public fields id, email, role.
C19_NoPasswordInResponses ==
  resp.op \in {"register", "login", "me"} =>
    \A o \in resp.body.users :
      /\ DOMAIN o = {"id", "email", "role"}
      /\ \E u \in users : u.id = o.id /\ u.email = o.email /\ u.role = o.role

\* C19 witness: after a registration and a login, GET /auth/me has answered
\* with a user object.
C19_Witness ==
  /\ resp.op = "me"
  /\ resp.status = 200
  /\ resp.body.users # {}
  /\ Cardinality(tokens) > 1

\* C20: a login with an e-mail of no user and a login with a stored e-mail
\* but a wrong password are both answered 401 with the same body, and neither
\* stores a refresh token nor changes any other state.
C20_FailedLoginUniform ==
  [][\A e \in Emails, pw \in Passwords :
       (Login(e, pw) /\ ~ValidCredentials(e, pw)) =>
         /\ resp'.status = 401
         /\ resp'.body = LoginUnknownEmail(variant)
         /\ resp'.body.users = {}
         /\ UNCHANGED <<users, tokens, tokSeq, issued, dead, now>>]_vars

\* C20 witness: every e-mail of the model is registered and a login was
\* refused: it had a stored e-mail and a wrong password.
C20_Witness ==
  /\ resp.op = "login"
  /\ resp.status = 401
  /\ \A e \in Emails : FindUserByEmail(users, ToLowerCase(e)) # {}

----------------------------------------------------------------------------
(* POST /auth/register step by step: concurrent requests interleave at the *)
(* awaits of the handler (lookup, insert of the user, insert of the token).*)

InitReg == InitSession

\* const existingUser = await prisma.user.findUnique({email: toLowerCase});
\* if (existingUser) throw Conflict.
RegLookup(p, e) ==
  /\ reg[p].pc = "idle"
  /\ IF FindUserByEmail(users, ToLowerCase(e)) # {}
     THEN reg' = [reg EXCEPT ![p] = [pc |-> "done", email |-> e, uid |-> 0,
                                     status |-> 409, err |-> "found",
                                     row |-> {}]]
     ELSE reg' = [reg EXCEPT ![p] = [pc |-> "create", email |-> e, uid |-> 0,
                                     status |-> 0, err |-> "none",
                                     row |-> {}]]
  /\ UNCHANGED sessionVars
  /\ UNCHANGED listVars

\* await hashPassword; await prisma.user.create({email: toLowerCase, ...}).
\* A P2002 thrown here reaches the error middleware through asyncHandler.
RegCreateUser(p) ==
  /\ reg[p].pc = "create"
  /\ LET em == ToLowerCase(reg[p].email)
         uid == Cardinality(users) + 1
     IN IF CreateUserOk(users, em)
        THEN /\ users' = users \cup {[id |-> uid, email |-> em,
                                       password |-> HashPassword(GoodPassword),
                                       role |-> RoleFor(variant, "CUSTOMER")]}
             /\ reg' = [reg EXCEPT ![p].pc = "store", ![p].uid = uid]
        ELSE /\ reg' = [reg EXCEPT ![p].pc = "done", ![p].err = "P2002",
                                   ![p].status = PrismaErrorStatus(variant, "P2002")]
             /\ UNCHANGED users
  /\ UNCHANGED <<variant, now, tokens, tokSeq, issued, dead, resp>>
  /\ UNCHANGED listVars

\* generateRefreshToken; await create of the refresh-token row; 201.
RegStoreToken(p) ==
  /\ reg[p].pc = "store"
  /\ LET tok == GenerateRefreshToken(variant, reg[p].uid, tokSeq + 1, now)
     IN IF CreateTokenOk(tokens, tok)
        THEN /\ tokens' = CreateToken(tokens, tokSeq + 1, reg[p].uid, tok, now)
             /\ tokSeq' = tokSeq + 1
             /\ issued' = issued \cup {tok}
             /\ reg' = [reg EXCEPT ![p].pc = "done", ![p].status = 201]
        ELSE /\ reg' = [reg EXCEPT ![p].pc = "done", ![p].err = "P2002",
                                   ![p].status = PrismaErrorStatus(variant, "P2002")]
             /\ UNCHANGED <<tokens, tokSeq, issued>>
  /\ UNCHANGED <<variant, now, users, dead, resp>>
  /\ UNCHANGED listVars

NextReg ==
  \/ \E p \in RegProcs, e \in Emails : RegLookup(p, e)
  \/ \E p \in RegProcs : RegCreateUser(p)
  \/ \E p \in RegProcs : RegStoreToken(p)
  \/ Tick

SpecReg == InitReg /\ [][NextReg]_vars

\* C6: of the registration requests whose e-mails are equal ignoring case,
\* in any interleaving of their lookup and insert steps, at most one creates
\* a user row and is answered 201; every other one is answered 409.
C6_OneUserPerEmail ==
  /\ \A u1, u2 \in users : u1.email = u2.email => u1 = u2
  /\ \A p \in RegProcs : reg[p].pc = "done" => reg[p].status \in {201, 409}
  /\ \A p, q \in RegProcs :
       (/\ p # q
        /\ reg[p].pc = "done" /\ reg[q].pc = "done"
        /\ ToLowerCase(reg[p].email) = ToLowerCase(reg[q].email))
       => ~(reg[p].status = 201 /\ reg[q].status = 201)
  /\ \A p \in RegProcs : reg[p].uid # 0 =>
       \A q \in RegProcs \ {p} :
         (reg[q].pc = "done" /\ ToLowerCase(reg[q].email) = ToLowerCase(reg[p].email))
         => reg[q].status = 409

\* C6 witness: two requests whose e-mails differ only in case both passed the
\* lookup; one was answered 201, the other lost at the insert and got 409.
C6_Witness ==
  \E p, q \in RegProcs :
    /\ reg[p].email # reg[q].email
    /\ ToLowerCase(reg[p].email) = ToLowerCase(reg[q].email)
    /\ reg[p].pc = "done" /\ reg[p].status = 201
    /\ reg[q].pc = "done" /\ reg[q].status = 409 /\ reg[q].err = "P2002"

----------------------------------------------------------------------------
(* Listing issues with cursor pagination.                                  *)
(*   v1:   GET /api/v1/issues, cursor = base64(JSON {createdAt, id}),      *)
(*         orderBy [createdAt desc, id desc], Prisma cursor {id} + skip 1  *)
(*   root: GET /issues and GET /issues/my/list, cursor = createdAt of the  *)
(*         last row, where createdAt < cursor, orderBy createdAt desc      *)

IssueTypes == {"DAMAGED", "LOST"}

\* The users of the listing scenarios: the database as scripts/seed.js and
\* registrations leave it (a support user and two customers; v1 knows one role).
ListUsers(v) ==
  {[id |-> 1, email |-> "support@deliverytracker.com",
    password |-> HashPassword(GoodPassword), role |-> RoleFor(v, "SUPPORT")],
   [id |-> 2, email |-> "customer@example.com",
    password |-> HashPassword(GoodPassword), role |-> RoleFor(v, "CUSTOMER")],
   [id |-> 3, email |-> "b@x.io",
    password |-> HashPassword(GoodPassword), role |-> RoleFor(v, "CUSTOMER")]}

\* Who may POST /issues: root requireCustomer; v1 any authenticated user.
MayCreateIssue(v, u) == v = "v1" \/ u.role = "CUSTOMER"

\* The list requests of the model: v1 GET /issues with or without a type;
\* root GET /issues without filter and GET /issues/my/list, customerId =
\* req.user.id.
Filters(v) ==
  IF v = "v1"
  THEN {Where(t, "", 0) : t \in {""} \cup IssueTypes}
  ELSE {Where("", "", 0)}
       \cup {Where("", "", u.id) : u \in {x \in users : x.role = "CUSTOMER"}}
Matches(i, w) ==
  /\ w.type = "" \/ i.type = w.type
  /\ w.severity = "" \/ i.severity = w.severity
  /\ w.customerId = 0 \/ i.createdById = w.customerId
Matching(store, w) == {i \in store : Matches(i, w)}
Ids(rows) == {i.id : i \in rows}

\* Row a comes before row b under orderBy [createdAt desc, id desc].
Before(a, b) ==
  \/ a.createdAt > b.createdAt
  \/ a.createdAt = b.createdAt /\ a.id > b.id

RECURSIVE SortDesc(_)
SortDesc(S) ==
  IF S = {} THEN <<>>
  ELSE LET m == CHOOSE x \in S : \A y \in S \ {x} : Before(x, y)
       IN <<m>> \o SortDesc(S \ {m})

\* The orders a database may return for orderBy createdAt desc alone: rows
\* with equal createdAt come in any order.
RECURSIVE OrdersByCreatedAt(_)
OrdersByCreatedAt(S) ==
  IF S = {} THEN {<<>>}
  ELSE UNION {{<<m>> \o rest : rest \in OrdersByCreatedAt(S \ {m})} :
              m \in {x \in S : \A y \in S : x.createdAt >= y.createdAt}}

Take(seq, n) == SubSeq(seq, 1, IF n < Len(seq) THEN n ELSE Len(seq))
Skip(seq, n) == SubSeq(seq, n + 1, Len(seq))
SeqIds(seq) == [k \in 1..Len(seq) |-> seq[k].id]
Range(seq) == {seq[k] : k \in 1..Len(seq)}

\* Cursor strings.  v1: base64 of JSON {createdAt, id}; root: the ISO string
\* of createdAt.  Only the id of a v1 cursor is read back.
EncodeCursor(i) == <<"base64", i.createdAt, i.id>>
DecodeCursor(c) == [createdAt |-> c[2], id |-> c[3]]
ToISOString(t) == <<"iso", t>>
ParseDate(c) == c[2]

\* A findMany whose skip: 1 is forgotten: the page starts at the cursor row.
FindManyV1_NoSkip(store, w, cur, n) ==
  LET rows ==
        IF cur = NoCursor THEN SortDesc(Matching(store, w))
        ELSE LET at == {i \in store : i.id = DecodeCursor(cur).id}
             IN IF at = {} THEN <<>>
                ELSE LET c == CHOOSE x \in at : TRUE
                     IN SortDesc({i \in Matching(store, w) : i = c \/ Before(c, i)})
  IN {Take(rows, n + 1)}

\* prisma.issue.findMany of v1: with cursor {id} the result starts at the row
\* with that id in the listing order and skip 1 drops the first row; a cursor
\* id that no row has yields nothing; take limit + 1.
FindManyV1(store, w, cur, n) ==
  LET rows ==
        IF cur = NoCursor THEN SortDesc(Matching(store, w))
        ELSE LET at == {i \in store : i.id = DecodeCursor(cur).id}
             IN IF at = {} THEN <<>>
                ELSE LET c == CHOOSE x \in at : TRUE
                     IN Skip(SortDesc({i \in Matching(store, w) :
                                        i = c \/ Before(c, i)}), 1)
  IN {Take(rows, n + 1)}

\* prisma.issue.findMany of root: where createdAt < new Date(cursor),
\* orderBy createdAt desc, take limit + 1.
FindManyRoot(store, w, cur, n) ==
  LET sel == {i \in Matching(store, w) :
                cur = NoCursor \/ i.createdAt < ParseDate(cur)}
  IN {Take(rows, n + 1) : rows \in OrdersByCreatedAt(sel)}

FindMany(v, store, w, cur, n) ==
  IF v = "v1" THEN FindManyV1(store, w, cur, n) ELSE FindManyRoot(store, w, cur, n)

\* A page built from the row that is dropped instead of the last one kept.
BuildPage_CursorOfDropped(v, rows, n) ==
  LET hasMore == Len(rows) > n
      items == IF hasMore THEN SubSeq(rows, 1, Len(rows) - 1) ELSE rows
  IN [items |-> items, hasMore |-> hasMore,
      nextCursor |-> IF hasMore
                     THEN IF v = "v1" THEN EncodeCursor(rows[Len(rows)])
                          ELSE ToISOString(rows[Len(rows)].createdAt)
                     ELSE NoCursor]

\* The response built from the limit + 1 rows fetched.
\* v1: data = issues.slice(0, -1); root: items = issues.slice(0, limit).
BuildPage(v, rows, n) ==
  LET hasMore == Len(rows) > n
      items == IF ~hasMore THEN rows
               ELSE IF v = "v1" THEN SubSeq(rows, 1, Len(rows) - 1)
               ELSE SubSeq(rows, 1, n)
  IN [items |-> items, hasMore |-> hasMore,
      nextCursor |-> IF hasMore /\ Len(items) > 0
                     THEN IF v = "v1" THEN EncodeCursor(items[Len(items)])
                          ELSE ToISOString(items[Len(items)].createdAt)
                     ELSE NoCursor]

\* One list request answered.
ListCall(w, cur, n) ==
  \E rows \in FindMany(variant, issues, w, cur, n) :
    LET res == BuildPage(variant, rows, n)
    IN page' = [where |-> w, cursor |-> cur, limit |-> n, items |-> res.items,
                hasMore |-> res.hasMore, nextCursor |-> res.nextCursor]

InitList ==
  /\ variant \in Variants
  /\ now = 0
  /\ users = ListUsers(variant)
  /\ tokens = {}
  /\ tokSeq = 0
  /\ issued = {}
  /\ dead = {}
  /\ resp = Reply("none", 0)
  /\ reg = [p \in RegProcs |-> RegIdle]
  /\ issues = {}
  /\ page = NoPage
  /\ trav = NoTraversal
  /\ hits = NoHits

\* A create that stores the severity the body supplies in both backends.
NewIssue_BodySeverity(v, uid, id, type, severity, t) ==
  [id |-> id, createdAt |-> t, type |-> type,
   severity |-> severity,
   status |-> "OPEN", createdById |-> uid,
   assignedToId |-> 0, updatedAt |-> t, resolvedAt |-> {}]

\* The row prisma.issue.create stores: createdAt and updatedAt default to
\* now, status to OPEN; no assignee (0) and no resolvedAt ({}: null).
\* v1 stores severity MEDIUM; root stores the severity of the body.
NewIssue(v, uid, id, type, severity, t) ==
  [id |-> id, createdAt |-> t, type |-> type,
   severity |-> IF v = "v1" THEN "MEDIUM" ELSE severity,
   status |-> "OPEN", createdById |-> uid,
   assignedToId |-> 0, updatedAt |-> t, resolvedAt |-> {}]

\* POST /issues by user uid: the row gets a fresh id and createdAt = now.
CreateIssue(uid, id, type, severity) ==
  /\ Cardinality(issues) < MaxIssues
  /\ id \notin Ids(issues)
  /\ \E u \in FindUserById(users, uid) : MayCreateIssue(variant, u)
  /\ issues' = issues \cup {NewIssue(variant, uid, id, type, severity, now)}
  /\ resp' = Reply("createIssue", 201)
  /\ page' = NoPage
  /\ UNCHANGED <<variant, now, users, tokens, tokSeq, issued, dead, reg, hits, trav>>

\* Time passes between requests on issues.
IssueTick ==
  /\ now < MaxIssueClock
  /\ now' = now + 1
  /\ page' = NoPage
  /\ UNCHANGED <<variant, users, tokens, tokSeq, issued, dead, resp, reg, hits, issues, trav>>

\* The requests of the listing scenarios: who creates issues, with what.
IssueCreators(v) == IF v = "v1" THEN {2} ELSE {2, 3}
IssueTypeInputs(v) == IF v = "v1" THEN IssueTypes ELSE {"DAMAGED"}
SeverityInputs(v) == {"MEDIUM"}

\* The cursors a client can send: none, or one a page gave for a stored row.
CursorsOf(v, store) ==
  {NoCursor} \cup
  (IF v = "v1" THEN {EncodeCursor(i) : i \in store}
   ELSE {ToISOString(i.createdAt) : i \in store})

\* GET /issues (or /issues/my/list) with any filter, cursor and limit; page
\* holds the response until the next request on issues arrives.
List(w, cur, n) ==
  /\ page = NoPage
  /\ ListCall(w, cur, n)
  /\ UNCHANGED <<sessionVars, reg, hits, issues, trav>>

\* A client fetches the first page of a listing ...
TravFirst(w, n) ==
  /\ trav.phase = "idle"
  /\ ListCall(w, NoCursor, n)
  /\ trav' = [phase |-> IF page'.hasMore THEN "run" ELSE "done",
              filter |-> w, limit |-> n, cursor |-> page'.nextCursor,
              acc |-> SeqIds(page'.items),
              first |-> Ids(Matching(issues, w)),
              last |-> Ids(Matching(issues, w))]
  /\ UNCHANGED <<sessionVars, reg, hits, issues>>

\* ... and follows nextCursor until hasMore = false.
TravNext ==
  /\ trav.phase = "run"
  /\ ListCall(trav.filter, trav.cursor, trav.limit)
  /\ trav' = [trav EXCEPT !.phase = IF page'.hasMore THEN "run" ELSE "done",
                          !.cursor = page'.nextCursor,
                          !.acc = trav.acc \o SeqIds(page'.items),
                          !.last = Ids(Matching(issues, trav.filter))]
  /\ UNCHANGED <<sessionVars, reg, hits, issues>>

Limits == 1..MaxLimit

NextList ==
  \/ IssueTick
  \/ \E uid \in IssueCreators(variant), id \in 1..MaxIssues,
        t \in IssueTypeInputs(variant), sv \in SeverityInputs(variant) :
       CreateIssue(uid, id, t, sv)
  \/ \E w \in Filters(variant), cur \in CursorsOf(variant, issues), n \in Limits :
       List(w, cur, n)

SpecList == InitList /\ [][NextList]_vars

NextTrav ==
  \/ IssueTick
  \/ \E uid \in IssueCreators(variant), id \in 1..MaxIssues,
        t \in IssueTypeInputs(variant), sv \in SeverityInputs(variant) :
       CreateIssue(uid, id, t, sv)
  \/ \E w \in Filters(variant), n \in Limits : TravFirst(w, n)
  \/ TravNext

SpecTrav == InitList /\ [][NextTrav]_vars

----------------------------------------------------------------------------
(* Claims about pagination.                                                *)

IssueById(id) == CHOOSE i \in issues : i.id = id
AccIds == {trav.acc[k] : k \in 1..Len(trav.acc)}
\* The rows yielded so far come in strictly descending (createdAt, id) order.
AccStrictlyDescending ==
  \A k \in 1..(Len(trav.acc) - 1) :
    Before(IssueById(trav.acc[k]), IssueById(trav.acc[k + 1]))

\* C8 as stated: following nextCursor of the v1 listing until hasMore = false
\* yields every row matching the filters exactly once, in strictly descending
\* (createdAt, id) order, also when issues are inserted between page fetches.
C8_YieldsEveryMatchingRow ==
  (variant = "v1" /\ trav.phase = "done") =>
    /\ AccStrictlyDescending
    /\ Len(trav.acc) = Cardinality(AccIds)
    /\ AccIds = trav.last

\* C8 as amended: the traversal yields every matching row that was stored when
\* the first page was fetched exactly once, yields a row inserted during the
\* traversal at most once, and yields in strictly descending (createdAt, id)
\* order.
C8_YieldsEveryRowOfFirstFetch ==
  variant = "v1" =>
    /\ AccStrictlyDescending
    /\ Len(trav.acc) = Cardinality(AccIds)
    /\ AccIds \subseteq trav.last
    /\ trav.phase = "done" => trav.first \subseteq AccIds

\* C8 witness: a finished v1 traversal of more than one page, with rows of
\* equal createdAt among those yielded and a matching row inserted meanwhile.
C8_Witness ==
  /\ variant = "v1"
  /\ trav.phase = "done"
  /\ Len(trav.acc) > trav.limit
  /\ trav.first # trav.last
  /\ \E a, b \in AccIds : a # b /\ IssueById(a).createdAt = IssueById(b).createdAt

\* C9: following nextCursor of a root listing until hasMore = false yields
\* every matching row exactly once, also when matching rows have the same
\* createdAt (stated for traversals during which no matching row is inserted).
C9_RootYieldsEveryMatchingRow ==
  (variant = "root" /\ trav.phase = "done" /\ trav.first = trav.last) =>
    /\ Len(trav.acc) = Cardinality(AccIds)
    /\ AccIds = trav.first

\* What C10 asks of the page pg answered to the list request (w, cur, n).
PageOk(v, store, w, cur, n, pg) ==
  LET items == pg.items
      last == items[Len(items)]
      follows(i) ==
        IF v = "v1" THEN Before(last, i)
        ELSE /\ cur = NoCursor \/ i.createdAt < ParseDate(cur)
             /\ i \notin Range(items)
  IN /\ Len(items) <= n
     /\ \A k \in 1..Len(items) : items[k] \in Matching(store, w)
     /\ pg.hasMore <=>
          (Len(items) > 0 /\ \E i \in Matching(store, w) : follows(i))
     /\ pg.nextCursor # NoCursor <=> pg.hasMore
     /\ pg.hasMore =>
          IF v = "v1"
          THEN DecodeCursor(pg.nextCursor) = [createdAt |-> last.createdAt, id |-> last.id]
          ELSE ParseDate(pg.nextCursor) = last.createdAt

\* C10: every list call with limit N answers at most N rows; hasMore is true
\* iff a further matching row follows the last row of the page; nextCursor
\* is set iff hasMore is true and is then built from the last row returned.
C10_PageShape ==
  page # NoPage =>
    PageOk(variant, issues, page.where, page.cursor, page.limit, page)

\* C10 witness: a full page was answered with hasMore and a cursor.
C10_Witness ==
  /\ page.hasMore
  /\ Len(page.items) = page.limit
  /\ page.limit = MaxLimit
  /\ page.nextCursor # NoCursor

----------------------------------------------------------------------------
(* The issue endpoints as requests: authenticate, role gate, validation,   *)
(* handler.  The first middleware that answers ends the request.           *)

\* limit of the list query: min(1), max(100), default(20) in both schemas.
LimitMin == 1
LimitMax == 100
LimitDefault == 20

\* A validation that clamps the limit into the range instead of refusing it.
ValidateLimit_Clamp(raw) ==
  IF raw = {} THEN [ok |-> TRUE, limit |-> LimitDefault]
  ELSE LET n == CHOOSE x \in raw : TRUE
       IN [ok |-> TRUE,
           limit |-> IF n < LimitMin THEN LimitMin
                     ELSE IF n > LimitMax THEN LimitMax ELSE n]

\* Joi number().integer().min(1).max(100).default(20) / zod coerce.number()
\* .int().min(1).max(100).default(20) on the raw limit ({} when absent): the
\* default when absent, a validation error outside the range.
ValidateLimit(raw) ==
  IF raw = {} THEN [ok |-> TRUE, limit |-> LimitDefault]
  ELSE LET n == CHOOSE x \in raw : TRUE
       IN IF n < LimitMin \/ n > LimitMax THEN [ok |-> FALSE, limit |-> 0]
          ELSE [ok |-> TRUE, limit |-> n]

\* The raw limits of the model's requests.
RawLimits ==
  {{}} \cup {{n} : n \in {LimitMin - 1, LimitMin, MaxLimit, LimitMax, LimitMax + 1}}

\* Cursor strings that are not cursors: text that is neither base64 JSON nor
\* a timestamp, and (v1) base64 JSON of an object without id (id 0).
Garbage == <<"garbage">>
CursorWithoutId == <<"base64", 0, 0>>
MalformedCursors(v) == IF v = "v1" THEN {Garbage, CursorWithoutId} ELSE {Garbage}

\* The status the error middleware answers when Prisma refuses a query
\* argument (PrismaClientValidationError).  v1 handleError: 400; root
\* errorHandler: the error is not operational and has no code: 500.
PrismaValidationStatus(v) == IF v = "v1" THEN 400 ELSE 500

\* What becomes of a request because of its cursor (0: nothing, the query
\* runs).  v1: JSON.parse throws on what is not base64 JSON, caught and
\* answered 400; a decoded object without id gives findMany cursor {id:
\* undefined}, which Prisma refuses.  root: new Date(cursor) of what is no
\* timestamp is an Invalid Date, which Prisma refuses.
CursorStatus(v, cur) ==
  IF cur = NoCursor THEN 0
  ELSE IF v = "v1"
  THEN IF cur[1] # "base64" THEN 400
       ELSE IF DecodeCursor(cur).id = 0 THEN PrismaValidationStatus(v)
       ELSE 0
  ELSE IF cur[1] # "iso" THEN PrismaValidationStatus(v) ELSE 0

\* The issue ids of requests: two ids issues are created with, one no issue has.
ApiIssueIds == {1, 2}
NoSuchIssueId == MaxIssues + 1
\* A user id no user has.
GhostUserId == Cardinality(ListUsers("root")) + 1

\* The headers of the requests: every kind for user 2, valid tokens for the
\* other users and for a user that is not stored.
ApiHeaders ==
  Headers({2}, Sec(MaxIssueClock))
    \cup {Bearer(AccessTokenFor(u, Sec(MaxIssueClock) + 1)) : u \in {1, 3, GhostUserId}}

\* A request that a middleware or the handler refuses: the response, no page,
\* nothing else changes.
Refuse(r) ==
  /\ resp' = r
  /\ page' = NoPage
  /\ UNCHANGED <<variant, now, users, tokens, tokSeq, issued, dead, reg, hits, issues, trav>>

\* The role gate of a route: root routes name requireCustomer or
\* requireSupport; no v1 route has a role gate (authorize is never mounted).
Gate(v, roles, user) == IF v = "root" THEN RequireRole(roles, user) ELSE 0
\* The 401 / 403 of the gate.
GateReply(op, status, uid) ==
  ReplyWith(op, status, uid, Forged, ErrorBody("Insufficient permissions"))

IssueStatuses(v) ==
  IF v = "v1" THEN {"OPEN", "IN_PROGRESS", "RESOLVED", "CLOSED"}
  ELSE {"OPEN", "IN_PROGRESS", "RESOLVED"}

\* POST /issues: authenticate, (root) requireCustomer, validation of the
\* body, create.
PostIssue(h, id, type, severity) ==
  LET auth == Authenticate(variant, users, h, now)
      uid == AttachedId(auth)
  IN IF auth.status # 0 THEN Refuse(AuthReply("postIssue", auth))
     ELSE IF Gate(variant, {"CUSTOMER"}, auth.user) # 0
     THEN Refuse(GateReply("postIssue", Gate(variant, {"CUSTOMER"}, auth.user), uid))
     ELSE IF type \notin IssueTypes
     THEN Refuse(ReplyWith("postIssue", 400, uid, Forged, ErrorBody("Validation failed")))
     ELSE /\ id \notin Ids(issues)
          /\ issues' = issues \cup {NewIssue(variant, uid, id, type, severity, now)}
          /\ resp' = ReplyWith("postIssue", 201, uid, Forged,
                       Body("", {}, {NewIssue(variant, uid, id, type, severity, now)}))
          /\ page' = NoPage
          /\ UNCHANGED <<variant, now, users, tokens, tokSeq, issued, dead, reg, hits, trav>>

\* The list handler after the gates: validation of limit, the cursor, the
\* query, the page.
ListHandler(op, uid, w, cur, raw) ==
  LET lim == ValidateLimit(raw)
  IN IF ~lim.ok
     THEN Refuse(ReplyWith(op, 400, uid, Forged, ErrorBody("Validation failed")))
     ELSE IF CursorStatus(variant, cur) # 0
     THEN Refuse(ReplyWith(op, CursorStatus(variant, cur), uid, Forged,
                           ErrorBody(IF CursorStatus(variant, cur) = 400
                                     THEN "Invalid cursor format"
                                     ELSE "Something went wrong")))
     ELSE /\ ListCall(w, cur, lim.limit)
          /\ resp' = ReplyWith(op, 200, uid, Forged, Body("", {}, Range(page'.items)))
          /\ UNCHANGED <<variant, now, users, tokens, tokSeq, issued, dead, reg, hits, issues, trav>>

\* GET /issues: authenticate, (root) requireSupport, the list handler.
GetIssues(h, w, cur, raw) ==
  LET auth == Authenticate(variant, users, h, now)
      uid == AttachedId(auth)
  IN IF auth.status # 0 THEN Refuse(AuthReply("list", auth))
     ELSE IF Gate(variant, {"SUPPORT"}, auth.user) # 0
     THEN Refuse(GateReply("list", Gate(variant, {"SUPPORT"}, auth.user), uid))
     ELSE ListHandler("list", uid, w, cur, raw)

\* GET /issues/my/list (root): authenticate, requireCustomer, the list handler
\* with customerId = req.user.id.
GetMyIssues(h, cur, raw) ==
  /\ variant = "root"
  /\ LET auth == Authenticate(variant, users, h, now)
         uid == AttachedId(auth)
     IN IF auth.status # 0 THEN Refuse(AuthReply("myList", auth))
        ELSE IF Gate(variant, {"CUSTOMER"}, auth.user) # 0
        THEN Refuse(GateReply("myList", Gate(variant, {"CUSTOMER"}, auth.user), uid))
        ELSE ListHandler("myList", uid, Where("", "", uid), cur, raw)

FindIssue(store, id) == {i \in store : i.id = id}

\* Who may read an issue.  root: a CUSTOMER only the issues it created; v1:
\* the handler has no check.
MayView(v, u, i) ==
  IF v = "root" THEN ~(u.role = "CUSTOMER" /\ i.createdById # u.id) ELSE TRUE

\* GET /issues/:id: authenticate, find the issue (404), the ownership check of
\* root (403), the issue.
GetIssue(h, id) ==
  LET auth == Authenticate(variant, users, h, now)
      uid == AttachedId(auth)
  IN Refuse(
       IF auth.status # 0 THEN AuthReply("getIssue", auth)
       ELSE IF FindIssue(issues, id) = {}
       THEN ReplyWith("getIssue", 404, uid, Forged, ErrorBody("Issue not found"))
       ELSE IF \E u \in auth.user, i \in FindIssue(issues, id) : ~MayView(variant, u, i)
       THEN ReplyWith("getIssue", 403, uid, Forged,
                      ErrorBody("You can only view your own issues"))
       ELSE ReplyWith("getIssue", 200, uid, Forged, Body("", {}, FindIssue(issues, id))))

\* A triage update that writes the assignee also when none is given.
TriageUpdate_AlwaysAssigns(i, severity, status, assignedTo, t) ==
  [i EXCEPT !.severity = severity,
            !.updatedAt = t,
            !.status = IF status = "" THEN @ ELSE status,
            !.resolvedAt = IF status \in {"RESOLVED", "CLOSED"} THEN {t} ELSE @,
            !.assignedToId = assignedTo]

\* A triage update that stamps resolvedAt for RESOLVED only.
TriageUpdate_ResolvedOnly(i, severity, status, assignedTo, t) ==
  [i EXCEPT !.severity = severity,
            !.updatedAt = t,
            !.status = IF status = "" THEN @ ELSE status,
            !.resolvedAt = IF status = "RESOLVED" THEN {t} ELSE @,
            !.assignedToId = IF assignedTo = 0 THEN @ ELSE assignedTo]

\* The data of the triage update: severity and updatedAt always; status when
\* given, with resolvedAt = now for RESOLVED and CLOSED; assignedToId when
\* given ("" and 0 stand for an absent field).
TriageUpdate(i, severity, status, assignedTo, t) ==
  [i EXCEPT !.severity = severity,
            !.updatedAt = t,
            !.status = IF status = "" THEN @ ELSE status,
            !.resolvedAt = IF status \in {"RESOLVED", "CLOSED"} THEN {t} ELSE @,
            !.assignedToId = IF assignedTo = 0 THEN @ ELSE assignedTo]

\* Whether the assignee check of triage lets the request through.
AssigneeOk_Unchecked(us, assignedTo) == TRUE
AssigneeOk(us, assignedTo) == assignedTo = 0 \/ FindUserById(us, assignedTo) # {}

\* PATCH /issues/:id/triage (v1): authenticate, validation, find the issue
\* (404), check the assignee (400), update, the updated issue.
Triage(h, id, severity, status, assignedTo) ==
  /\ variant = "v1"
  /\ LET auth == Authenticate(variant, users, h, now)
         uid == AttachedId(auth)
     IN IF auth.status # 0 THEN Refuse(AuthReply("triage", auth))
        ELSE IF FindIssue(issues, id) = {}
        THEN Refuse(ReplyWith("triage", 404, uid, Forged, ErrorBody("Resource not found")))
        ELSE IF ~AssigneeOk(users, assignedTo)
        THEN Refuse(ReplyWith("triage", 400, uid, Forged, ErrorBody("Invalid reference")))
        ELSE LET old == CHOOSE i \in FindIssue(issues, id) : TRUE
                 new == TriageUpdate(old, severity, status, assignedTo, now)
             IN /\ issues' = (issues \ {old}) \cup {new}
                /\ resp' = ReplyWith("triage", 200, uid, Forged, Body("", {}, {new}))
                /\ page' = NoPage
                /\ UNCHANGED <<variant, now, users, tokens, tokSeq, issued, dead, reg, hits, trav>>

\* PATCH /issues/:id/status (root): authenticate, requireSupport, validation,
\* find the issue (404), update status and updatedAt.
UpdateStatus(h, id, status) ==
  /\ variant = "root"
  /\ LET auth == Authenticate(variant, users, h, now)
         uid == AttachedId(auth)
     IN IF auth.status # 0 THEN Refuse(AuthReply("status", auth))
        ELSE IF Gate(variant, {"SUPPORT"}, auth.user) # 0
        THEN Refuse(GateReply("status", Gate(variant, {"SUPPORT"}, auth.user), uid))
        ELSE IF status \notin IssueStatuses(variant)
        THEN Refuse(ReplyWith("status", 400, uid, Forged, ErrorBody("Validation failed")))
        ELSE IF FindIssue(issues, id) = {}
        THEN Refuse(ReplyWith("status", 404, uid, Forged, ErrorBody("Issue not found")))
        ELSE LET old == CHOOSE i \in FindIssue(issues, id) : TRUE
                 new == [old EXCEPT !.status = status, !.updatedAt = now]
             IN /\ issues' = (issues \ {old}) \cup {new}
                /\ resp' = ReplyWith("status", 200, uid, Forged, Body("", {}, {new}))
                /\ page' = NoPage
                /\ UNCHANGED <<variant, now, users, tokens, tokSeq, issued, dead, reg, hits, trav>>

\* The inputs of the requests.
RequestIssueIds == ApiIssueIds \cup {NoSuchIssueId}
PostTypes == {"DAMAGED", "BOGUS"}
TriageSeverities == {"HIGH"}
TriageStatuses == {"", "RESOLVED", "CLOSED"}
StatusInputs == {"IN_PROGRESS", "RESOLVED", "BOGUS"}
Assignees == {0, 1, GhostUserId}
ListFilters(v) == IF v = "v1" THEN {Where("", "", 0), Where("DAMAGED", "", 0)}
                  ELSE {Where("", "", 0)}
RequestCursors(v, store) == CursorsOf(v, store) \cup MalformedCursors(v)

\* Requests are served one at a time: a request is taken up when the
\* response to the one before was sent.
Idle == resp.op = "none"
Deliver ==
  /\ ~Idle
  /\ resp' = Reply("none", 0)
  /\ page' = NoPage
  /\ UNCHANGED <<variant, now, users, tokens, tokSeq, issued, dead, reg, hits, issues, trav>>

\* Creating, listing and reading issues, and the status update of root.
NextApi ==
  \/ Deliver
  \/ Idle /\ IssueTick
  \/ \E h \in ApiHeaders, id \in ApiIssueIds, t \in PostTypes :
       Idle /\ PostIssue(h, id, t, "MEDIUM")
  \/ \E h \in ApiHeaders, w \in ListFilters(variant),
        cur \in RequestCursors(variant, issues), raw \in RawLimits :
       Idle /\ GetIssues(h, w, cur, raw)
  \/ \E h \in ApiHeaders, cur \in RequestCursors(variant, issues), raw \in RawLimits :
       Idle /\ GetMyIssues(h, cur, raw)
  \/ \E h \in ApiHeaders, id \in RequestIssueIds : Idle /\ GetIssue(h, id)
  \/ \E h \in ApiHeaders, id \in RequestIssueIds, st \in StatusInputs :
       Idle /\ UpdateStatus(h, id, st)

SpecApi == InitList /\ [][NextApi]_vars

\* The headers of the triage scenarios: none, and valid tokens of users 1, 2.
TriageHeaders ==
  {NoHeader} \cup {Bearer(AccessTokenFor(u, Sec(MaxIssueClock) + 1)) : u \in {1, 2}}

\* Creating issues and changing them: triage (v1), status update (root).
NextTriage ==
  \/ Deliver
  \/ Idle /\ IssueTick
  \/ \E id \in ApiIssueIds :
       Idle /\ PostIssue(Bearer(AccessTokenFor(2, Sec(MaxIssueClock) + 1)),
                         id, "DAMAGED", "MEDIUM")
  \/ \E h \in TriageHeaders, id \in RequestIssueIds, sv \in TriageSeverities,
        st \in TriageStatuses, a \in Assignees :
       Idle /\ Triage(h, id, sv, st, a)
  \/ \E h \in TriageHeaders, id \in RequestIssueIds, st \in StatusInputs :
       Idle /\ UpdateStatus(h, id, st)

SpecTriage == InitList /\ [][NextTriage]_vars

----------------------------------------------------------------------------
(* Claims about the issue endpoints.                                       *)

\* The caller of header h passes authenticate and the gate for roles.
Admitted(h, roles) ==
  /\ Authenticate(variant, users, h, now).status = 0
  /\ Gate(variant, roles, Authenticate(variant, users, h, now).user) = 0

\* A list request of an admitted caller was answered.
ListAnswered == resp'.op \in {"list", "myList"} /\ resp'.uid # 0

\* C11: a list request (of an admitted caller, with a valid limit) whose
\* cursor is malformed is answered 400, never 500, and with no page.
C11_MalformedCursorIs400 ==
  [][ListAnswered =>
       \A h \in ApiHeaders, cur \in MalformedCursors(variant), raw \in RawLimits :
         /\ (/\ Admitted(h, {"SUPPORT"}) /\ ValidateLimit(raw).ok
             /\ \E w \in ListFilters(variant) : Idle /\ GetIssues(h, w, cur, raw))
            => (resp'.status = 400 /\ page' = NoPage)
         /\ (/\ Admitted(h, {"CUSTOMER"}) /\ ValidateLimit(raw).ok
             /\ Idle /\ GetMyIssues(h, cur, raw))
            => (resp'.status = 400 /\ page' = NoPage)]_vars

\* The limit C12 as stated serves: the requested one clamped to [1, 100].
ClampedLimit(raw) ==
  IF raw = {} THEN LimitDefault
  ELSE LET n == CHOOSE x \in raw : TRUE
       IN IF n < LimitMin THEN LimitMin ELSE IF n > LimitMax THEN LimitMax ELSE n

\* C12 as stated: the page size a list request of an admitted caller is served
\* with is the requested limit clamped to [1, 100], and 20 without a limit.
C12_LimitIsClamped ==
  [][ListAnswered =>
       \A h \in ApiHeaders, cur \in CursorsOf(variant, issues), raw \in RawLimits :
         (/\ Admitted(h, {"SUPPORT"})
          /\ \E w \in ListFilters(variant) : Idle /\ GetIssues(h, w, cur, raw))
         => (resp'.status = 200 /\ page'.limit = ClampedLimit(raw))]_vars

\* What C12 as amended asks of the response to a list request with raw limit.
LimitServed(raw) ==
  IF raw = {} THEN resp'.status = 200 /\ page'.limit = LimitDefault
  ELSE LET n == CHOOSE x \in raw : TRUE
       IN IF LimitMin <= n /\ n <= LimitMax
          THEN resp'.status = 200 /\ page'.limit = n /\ Len(page'.items) <= n
          ELSE resp'.status = 400 /\ page' = NoPage

\* The headers that make resp'.uid the caller.
HeadersOfCaller ==
  {h \in ApiHeaders : AttachedId(Authenticate(variant, users, h, now)) = resp'.uid}

\* The cursors the answered request can have carried: the one the page
\* records, or any well-formed one when the request was refused.
CursorsOfRequest ==
  IF page' = NoPage THEN CursorsOf(variant, issues) ELSE {page'.cursor}

\* C12 as amended: a list request with a limit in [1, 100] is served with
\* that page size, one without limit with page size 20, and one with a limit
\* below 1 or above 100 is answered 400 with no page.
C12_LimitIsValidated ==
  [][ListAnswered =>
       \A h \in HeadersOfCaller, cur \in CursorsOfRequest, raw \in RawLimits :
         /\ (/\ Admitted(h, {"SUPPORT"})
             /\ \E w \in ListFilters(variant) : Idle /\ GetIssues(h, w, cur, raw))
            => LimitServed(raw)
         /\ (/\ Admitted(h, {"CUSTOMER"}) /\ Idle /\ GetMyIssues(h, cur, raw))
            => LimitServed(raw)]_vars

\* C12 witness: a list request with limit 101 was refused with 400.
C12_Witness ==
  /\ resp.op = "list"
  /\ resp.uid # 0
  /\ resp.status = 400
  /\ resp.body.error = "Validation failed"

\* The issue statuses C13 calls terminal.
TerminalStatuses == {"RESOLVED", "CLOSED"}

\* C13: in every reachable state of /api/v1 an issue whose status is RESOLVED
\* or CLOSED has a resolvedAt, and so has the issue a successful triage
\* returns.
C13_TerminalHasResolvedAt ==
  variant = "v1" =>
    /\ \A i \in issues : i.status \in TerminalStatuses => i.resolvedAt # {}
    /\ (resp.op = "triage" /\ resp.status = 200) =>
         \A i \in resp.body.issues :
           i.status \in TerminalStatuses => i.resolvedAt # {}

\* C13 witness: a triage that closed an issue has answered, and the stored
\* issue is CLOSED.
C13_Witness ==
  /\ variant = "v1"
  /\ resp.op = "triage"
  /\ resp.status = 200
  /\ \E i \in resp.body.issues : i.status = "CLOSED" /\ i \in issues

\* The assignedTo values of the requests that are no user's id.
UnknownAssignees == {a \in Assignees : a # 0 /\ FindUserById(users, a) = {}}

\* The headers of the triage requests that pass authenticate.
AuthenticatedHeaders ==
  {h \in TriageHeaders : Authenticate(variant, users, h, now).status = 0}

\* C14: a triage request of an authenticated caller for an existing issue
\* that names an assignedTo which is no user's id is answered 400 'Invalid
\* reference' and changes no field of any issue.
C14_UnknownAssigneeChangesNothing ==
  [][resp'.op = "triage" =>
       \A a \in UnknownAssignees, h \in AuthenticatedHeaders, id \in Ids(issues),
          sv \in TriageSeverities, st \in TriageStatuses :
         (Idle /\ Triage(h, id, sv, st, a))
         => /\ resp'.status = 400
            /\ resp'.body = ErrorBody("Invalid reference")
            /\ issues' = issues]_vars

\* C14 witness: a triage naming an unknown assignee was refused while an
\* issue is stored.
C14_Witness ==
  /\ resp.op = "triage"
  /\ resp.status = 400
  /\ resp.body = ErrorBody("Invalid reference")
  /\ issues # {}

\* C16: severity, status and assignee of an issue change only in a triage or
\* status update whose caller holds the SUPPORT role.
C16_OnlySupportTriages ==
  [][\A i \in issues, j \in issues' :
       (/\ i.id = j.id
        /\ <<i.severity, i.status, i.assignedToId>>
             # <<j.severity, j.status, j.assignedToId>>)
       => /\ resp'.op \in {"triage", "status"}
          /\ \E u \in users : u.id = resp'.uid /\ u.role = "SUPPORT"]_vars

\* The cursors the answered request can have carried, malformed ones included.
RequestCursorsAnswered ==
  IF page' = NoPage THEN RequestCursors(variant, issues) ELSE {page'.cursor}

\* The answered request came with header h.  Every handler answers with the
\* identity that authenticate attached, which is compared first.
RequestWith(h) ==
  /\ Idle
  /\ AttachedId(Authenticate(variant, users, h, now)) = resp'.uid
  /\ CASE resp'.op = "postIssue" ->
            \E id \in ApiIssueIds, t \in PostTypes : PostIssue(h, id, t, "MEDIUM")
       [] resp'.op = "list" ->
            \E w \in ListFilters(variant), cur \in RequestCursorsAnswered,
               raw \in RawLimits : GetIssues(h, w, cur, raw)
       [] resp'.op = "myList" ->
            \E cur \in RequestCursorsAnswered, raw \in RawLimits :
              GetMyIssues(h, cur, raw)
       [] resp'.op = "getIssue" -> \E id \in RequestIssueIds : GetIssue(h, id)
       [] resp'.op = "status" ->
            \E id \in RequestIssueIds, st \in StatusInputs : UpdateStatus(h, id, st)
       [] OTHER -> FALSE

\* The request is answered with status and has changed nothing.
RefusedWith(status) ==
  /\ resp'.status = status
  /\ resp'.body.issues = {}
  /\ resp'.body.users = {}
  /\ page' = NoPage
  /\ UNCHANGED <<users, tokens, tokSeq, issued, dead, issues>>

\* The roles the root backend allows to call the operation that answered.
AllowList ==
  IF resp'.op \in {"postIssue", "myList"} THEN {"CUSTOMER"}
  ELSE IF resp'.op \in {"list", "status"} THEN {"SUPPORT"}
  ELSE {"CUSTOMER", "SUPPORT"}

\* The headers that carry a valid access token of a user whose role the
\* operation that answered does not allow.
WrongRoleHeaders ==
  {h \in ApiHeaders :
     /\ Authenticate(variant, users, h, now).status = 0
     /\ \A u \in Authenticate(variant, users, h, now).user : u.role \notin AllowList}

\* C15: in the root backend a caller with a valid access token whose role is
\* not in the allow-list of the operation is answered 403, never 401,
\* whatever the body, query and issue id, and the request changes no state.
C15_WrongRoleIs403 ==
  [][(variant = "root" /\ resp'.op # "none") =>
       \A h \in WrongRoleHeaders : RefusedWith(403) \/ ~RequestWith(h)]_vars

\* C15 witness: a status update of a stored issue by a CUSTOMER was answered
\* 403.
C15_Witness ==
  /\ variant = "root"
  /\ resp.op = "status"
  /\ resp.status = 403
  /\ resp.uid # 0
  /\ issues # {}

\* C17: a caller without the SUPPORT role never receives an issue that
\* another user created.
C17_OnlyOwnIssue ==
  (/\ resp.op = "getIssue"
   /\ \E u \in users : u.id = resp.uid /\ u.role # "SUPPORT")
  => \A i \in resp.body.issues : i.createdById = resp.uid

\* The header carries a Bearer token that verifies and whose user exists.
ValidBearer(h) ==
  /\ h.scheme = "Bearer"
  /\ h.token.signed
  /\ Sec(now) < h.token.exp
  /\ \E u \in users : u.id = h.token.sub

\* C18: a request to a protected endpoint is passed on, with the token's user
\* attached, only if its header carries a Bearer token that verifies and
\* whose user exists; every other request is answered 401 with no identity
\* and changes nothing.  Each request has exactly one of the two outcomes.
C18_AuthenticateGuardsHandlers ==
  [][resp'.op # "none" =>
       \A h \in ApiHeaders :
         \/ IF ValidBearer(h)
            THEN resp'.status # 401 /\ resp'.uid = h.token.sub
            ELSE RefusedWith(401) /\ resp'.uid = 0
         \/ ~RequestWith(h)]_vars

\* C18 witness: a request with the token of a user that does not exist was
\* answered 401 while issues are stored.
C18_Witness ==
  /\ resp.op = "getIssue"
  /\ resp.status = 401
  /\ resp.body = ErrorBody("User not found")
  /\ issues # {}

----------------------------------------------------------------------------
(* POST /api/v1/auth/refresh step by step: concurrent requests interleave  *)
(* at the awaits of the handler (findUnique, delete of the expired row).   *)

\* A refresh token signed while JWT_REFRESH_EXPIRES_IN is configured longer
\* than the 7 days the handlers give the stored row: it still verifies when
\* its row has expired.
LongLivedRefreshToken(jti, t) ==
  [GenerateRefreshToken("v1", 0, jti, t) EXCEPT !.exp = Sec(MaxClock) + 1]

\* Two users have logged in at time 0.
InitExpired ==
  /\ variant = "v1"
  /\ now = 0
  /\ users = {u \in ListUsers("v1") : u.id \in {1, 2}}
  /\ tokens = CreateToken(CreateToken({}, 1, 1, LongLivedRefreshToken(1, 0), 0),
                          2, 2, LongLivedRefreshToken(2, 0), 0)
  /\ tokSeq = 2
  /\ issued = {LongLivedRefreshToken(1, 0), LongLivedRefreshToken(2, 0)}
  /\ dead = {}
  /\ resp = Reply("none", 0)
  /\ reg = [p \in RegProcs |-> RegIdle]
  /\ issues = {}
  /\ page = NoPage
  /\ trav = NoTraversal
  /\ hits = NoHits

\* verifyRefreshToken(refreshToken) (401 when it throws); storedToken = await
\* prisma.refreshToken.findUnique({where: {token}}).
RfFind(p, tok) ==
  /\ reg[p].pc = "idle"
  /\ reg' = [reg EXCEPT ![p] =
       IF ~VerifyRefreshToken(tok, now)
       THEN [RegIdle EXCEPT !.pc = "done", !.status = 401, !.err = "jwt"]
       ELSE [RegIdle EXCEPT !.pc = "found", !.row = FindToken(tokens, tok)]]
  /\ UNCHANGED sessionVars
  /\ UNCHANGED listVars

\* await prisma.refreshToken.delete({where: {id}}); throw ApiError(401).
\* delete throws P2025 when no row has the id, which the error middleware
\* answers instead.
DeleteExpired(store, id) ==
  IF \E r \in store : r.id = id
  THEN [store |-> DeleteTokenById(store, id), err |-> "expired", status |-> 401]
  ELSE [store |-> store, err |-> "P2025", status |-> PrismaErrorStatus("v1", "P2025")]

\* The rest of the handler: no row: 401; expiresAt < new Date(): delete the
\* row and 401; otherwise 200 with a new access token.
RfFinish(p) ==
  /\ reg[p].pc = "found"
  /\ IF reg[p].row = {}
     THEN /\ reg' = [reg EXCEPT ![p].pc = "done", ![p].status = 401,
                                ![p].err = "notFound"]
          /\ UNCHANGED tokens
     ELSE LET r == CHOOSE x \in reg[p].row : TRUE
          IN IF r.expiresAt < now
             THEN /\ tokens' = DeleteExpired(tokens, r.id).store
                  /\ reg' = [reg EXCEPT ![p].pc = "done",
                                        ![p].status = DeleteExpired(tokens, r.id).status,
                                        ![p].err = DeleteExpired(tokens, r.id).err]
             ELSE /\ reg' = [reg EXCEPT ![p].pc = "done", ![p].status = 200]
                  /\ UNCHANGED tokens
  /\ UNCHANGED <<variant, now, users, tokSeq, issued, dead, resp>>
  /\ UNCHANGED listVars

\* The response is sent; the handler is free for the next request.
RfReturn(p) ==
  /\ reg[p].pc = "done"
  /\ reg' = [reg EXCEPT ![p] = RegIdle]
  /\ UNCHANGED sessionVars
  /\ UNCHANGED listVars

NextExpired ==
  \/ \E p \in RegProcs, tok \in TokenInputs : RfFind(p, tok)
  \/ \E p \in RegProcs : RfFinish(p)
  \/ \E p \in RegProcs : RfReturn(p)
  \/ Tick

SpecExpired == InitExpired /\ [][NextExpired]_vars

\* C21: a refresh request that found a stored row and sees it expired is
\* answered 401, in every interleaving with other such requests, and
\* afterwards no row for the token is stored; it is not answered 404 or 500.
C21_ExpiredRefreshIs401 ==
  [][\A p \in RegProcs :
       (RfFinish(p) /\ \E r \in reg[p].row : r.expiresAt < now)
       => /\ reg'[p].status = 401
          /\ \A r \in reg[p].row : FindToken(tokens', r.token) = {}]_vars

----------------------------------------------------------------------------
(* Creating issues with whatever the body supplies.                        *)

\* The severities a body of POST /issues supplies.
BodySeverities == {"MEDIUM", "HIGH"}

NextCreate ==
  \/ Deliver
  \/ Idle /\ IssueTick
  \/ \E h \in ApiHeaders, id \in ApiIssueIds, t \in PostTypes, sv \in BodySeverities :
       Idle /\ PostIssue(h, id, t, sv)

SpecCreate == InitList /\ [][NextCreate]_vars

----------------------------------------------------------------------------
(* POST /auth/register step by step when a database call can fail.         *)

\* Errors a database call can end with besides the unique violation P2002
\* that the model raises itself: P2003, a foreign-key violation (the user a
\* refresh-token row references is gone), and P1001, the database cannot be
\* reached.
DbErrors == {"P2003", "P1001"}

\* await prisma.user.create / await prisma.refreshToken.create rejects with
\* code; asyncHandler passes the error to the error middleware and nothing
\* the handler wrote before is undone.
RegFail(p, code) ==
  /\ reg[p].pc \in {"create", "store"}
  /\ code = "P2003" => reg[p].pc = "store"
  /\ reg' = [reg EXCEPT ![p].pc = "done", ![p].err = code,
                        ![p].status = PrismaErrorStatus(variant, code)]
  /\ UNCHANGED sessionVars
  /\ UNCHANGED listVars

NextFault ==
  \/ \E p \in RegProcs, e \in Emails : RegLookup(p, e)
  \/ \E p \in RegProcs : RegCreateUser(p)
  \/ \E p \in RegProcs : RegStoreToken(p)
  \/ \E p \in RegProcs, code \in DbErrors : RegFail(p, code)
  \/ \E p \in RegProcs : RfReturn(p)
  \/ Tick

SpecFault == InitReg /\ [][NextFault]_vars

\* C23: a request that ended in a unique-constraint violation (P2002) is
\* answered 409 and one that ended in a foreign-key violation (P2003) is
\* answered 400; neither is answered 500.
C23_ConstraintErrorsTranslated ==
  \A p \in RegProcs :
    reg[p].pc = "done" =>
      /\ reg[p].err = "P2002" => reg[p].status = 409
      /\ reg[p].err = "P2003" => reg[p].status = 400

\* C30: a registration that has ended either is answered 201 and its user
\* row and one active refresh token of that user exist, or is answered
\* otherwise and has created no user row.
C30_RegisterAllOrNothing ==
  \A p \in RegProcs :
    reg[p].pc = "done" =>
      IF reg[p].status = 201
      THEN /\ FindUserById(users, reg[p].uid) # {}
           /\ Cardinality({r \in tokens : r.userId = reg[p].uid /\ ~r.revoked}) = 1
      ELSE reg[p].uid = 0

----------------------------------------------------------------------------
(* The general rate limiter in front of every route, and GET /health.      *)

\* max of the general limiter (100 to 2000 requests per window in the
\* source), scaled down.
RateLimitMax == 2

\* skip of the general limiter.  root (server.js): req.path === '/health';
\* v1 (app.ts): apiRateLimit and devRateLimit have no skip.
SkipLimiter(v, path) == v = "root" /\ path = "/health"

\* express-rate-limit on a request of a client with n counted requests: a
\* skipped request is passed on uncounted; any other is counted and refused
\* with 429 when the count exceeds max (status 0: passed on).
Limiter(v, path, n) ==
  IF SkipLimiter(v, path) THEN [hits |-> n, status |-> 0]
  ELSE [hits |-> n + 1, status |-> IF n + 1 > RateLimitMax THEN 429 ELSE 0]

\* A request of client c to path, answered by reply when the limiter passes
\* it on.
Limited(c, op, path, reply) ==
  /\ hits[c] <= RateLimitMax
  /\ hits' = [hits EXCEPT ![c] = Limiter(variant, path, hits[c]).hits]
  /\ resp' = IF Limiter(variant, path, hits[c]).status # 0
             THEN ReplyWith(op, Limiter(variant, path, hits[c]).status, 0, Forged,
                            ErrorBody("Rate limit exceeded"))
             ELSE reply
  /\ UNCHANGED <<variant, now, users, tokens, tokSeq, issued, dead, reg,
                 issues, page, trav>>

\* GET /health: the limiter, then 200 {status: 'healthy', ...}.
Health(c) == Limited(c, "health", "/health", Reply("health", 200))

\* GET /issues without Authorization header: the limiter, then authenticate
\* answers 401.
ListNoToken(c) ==
  Limited(c, "list", "/issues",
          AuthReply("list", Authenticate(variant, users, NoHeader, now)))

\* The window of the limiter ends: the counts start again.
WindowReset ==
  /\ hits # NoHits
  /\ hits' = NoHits
  /\ UNCHANGED <<variant, now, users, tokens, tokSeq, issued, dead, resp, reg,
                 issues, page, trav>>

NextRate ==
  \/ \E c \in Clients : Health(c)
  \/ \E c \in Clients : ListNoToken(c)
  \/ WindowReset

SpecRate == InitList /\ [][NextRate]_vars

\* C24: GET /health is answered 200 however many requests the client has
\* made in the window, and does not count against the client's quota.
C24_HealthNeverLimited ==
  [][\A c \in Clients : Health(c) => (resp'.status = 200 /\ hits' = hits)]_vars

----------------------------------------------------------------------------
(* Claims about what a triage changes.                                     *)

\* C25: a successful triage sets severity to the given value, changes status
\* only if a status is given and the assignee only if an assignedTo is
\* given, never changes type, creator or createdAt, and changes no other
\* issue.
C25_TriageChangesWhatItIsGiven ==
  [][(resp'.op = "triage" /\ resp'.status = 200) =>
       \A h \in AuthenticatedHeaders, id \in Ids(issues), sv \in TriageSeverities,
          st \in TriageStatuses, a \in Assignees :
         (Idle /\ Triage(h, id, sv, st, a)) =>
           \E old \in issues, new \in issues' :
             /\ old.id = id /\ new.id = id
             /\ issues' \ {new} = issues \ {old}
             /\ resp'.body.issues = {new}
             /\ new.severity = sv
             /\ new.status = (IF st = "" THEN old.status ELSE st)
             /\ new.assignedToId = (IF a = 0 THEN old.assignedToId ELSE a)
             /\ new.type = old.type
             /\ new.createdById = old.createdById
             /\ new.createdAt = old.createdAt]_vars

\* C25 witness: a triage without status and assignee has answered for an
\* issue that was resolved and assigned before: both are kept.
C25_Witness ==
  /\ resp.op = "triage"
  /\ resp.status = 200
  /\ \E i \in resp.body.issues :
       /\ i \in issues
       /\ i.status = "RESOLVED"
       /\ i.assignedToId # 0
       /\ i.updatedAt \notin i.resolvedAt

\* C26: the resolvedAt of an issue changes only in a triage that moves its
\* status from a non-terminal value into RESOLVED or CLOSED.
C26_ResolvedAtOnlyOnTransition ==
  [][\A i \in issues, j \in issues' :
       (i.id = j.id /\ i.resolvedAt # j.resolvedAt) =>
         /\ resp'.op = "triage"
         /\ i.status \notin TerminalStatuses
         /\ j.status \in TerminalStatuses]_vars

----------------------------------------------------------------------------
(* Sessions and access tokens together: registration, logout and requests  *)
(* that go through authenticate or optionalAuth; no issue is stored.       *)

\* The headers of these requests.
AccessHeaders == Headers(1..(Cardinality(users) + 1), Sec(MaxClock))

\* A request to a route behind optionalAuth; the handler after it answers
\* with what the middleware did.
OptionalRequest(h, dbUp) ==
  LET o == OptionalAuth(variant, users, h, now, dbUp)
  IN /\ resp' = ReplyWith("optionalAuth", 0,
                          IF o.user = {} THEN 0 ELSE (CHOOSE u \in o.user : TRUE).id,
                          Forged, [nexts |-> o.nexts, errors |-> o.errors])
     /\ UNCHANGED <<variant, now, users, tokens, tokSeq, issued, dead>>
     /\ UNCHANGED nonSession

NextAccess ==
  \/ Tick
  \/ \E e \in Emails : Register(e, GoodPassword, "CUSTOMER")
  \/ \E tok \in TokenInputs : Logout(tok)
  \/ \E u \in users : LogoutAll(u.id)
  \/ \E h \in AccessHeaders : Me(h)
  \/ \E h \in AccessHeaders : GetIssue(h, NoSuchIssueId)
  \/ \E h \in AccessHeaders, dbUp \in BOOLEAN : OptionalRequest(h, dbUp)

SpecAccess == InitSession /\ [][NextAccess]_vars

----------------------------------------------------------------------------
(* Claims about the purge and about access tokens.                         *)

\* C27: the purge deletes exactly the rows that validateRefreshToken refuses
\* at the same clock value and no other: every token string is judged the
\* same, and every refresh is answered the same, right before and right
\* after the purge, also when expiresAt equals the current time.
C27_PurgeKeepsValidity ==
  [][Purge =>
       /\ tokens' \subseteq tokens
       /\ \A r \in tokens :
            r \in tokens' <=> ValidateRefreshToken(tokens, r.token, now) # {}
       /\ \A tok \in TokenInputs :
            /\ ValidateRefreshToken(tokens', tok, now') = ValidateRefreshToken(tokens, tok, now)
            /\ RefreshStatus(variant, tokens', tok, now') = RefreshStatus(variant, tokens, tok, now)]_vars

\* C27 witness: a purge has run at the very time a stored token expires; that
\* token is kept, another one was deleted.
C27_Witness ==
  /\ resp.op = "purge"
  /\ \E r \in tokens : r.expiresAt = now /\ ~r.revoked
  /\ \E tok \in issued : FindToken(tokens, tok) = {}

\* C28: optionalAuth calls next exactly once and never with an error,
\* whatever the header holds and whether or not the user lookup succeeds; it
\* attaches an identity only for a Bearer token that verifies and whose user
\* exists, and, when the lookup succeeds, for every such token.  It changes
\* nothing else.
C28_OptionalAuthNeverFails ==
  [][resp'.op = "optionalAuth" =>
     \A h \in AccessHeaders, dbUp \in BOOLEAN :
       OptionalRequest(h, dbUp) =>
         /\ resp'.body.nexts = 1
         /\ resp'.body.errors = 0
         /\ resp'.uid # 0 => (ValidBearer(h) /\ resp'.uid = h.token.sub)
         /\ (dbUp /\ ValidBearer(h)) => resp'.uid = h.token.sub
         /\ UNCHANGED <<users, tokens, tokSeq, issued, dead, now>>]_vars

\* C28 witness: a request with a Bearer token that does not verify went
\* through optionalAuth while a user is stored.
C28_Witness ==
  /\ resp.op = "optionalAuth"
  /\ resp.uid = 0
  /\ resp.body.nexts = 1
  /\ users # {}
  /\ variant = "v1"
  /\ \E h \in AccessHeaders :
       /\ h.scheme = "Bearer" /\ ~VerifyAccessToken(h.token, now)
       /\ resp = ReplyWith("optionalAuth", 0, 0, Forged,
                           [nexts |-> OptionalAuth(variant, users, h, now, TRUE).nexts,
                            errors |-> 0])

\* C29: in every state, whatever the refresh-token store holds, a request to
\* a protected endpoint gets past authenticate exactly when its header
\* carries a Bearer token that verifies and whose user exists, and then runs
\* as that user.
C29_AccessTokenOutlivesLogout ==
  [][resp'.op \in {"me", "getIssue"} =>
     \A h \in AccessHeaders :
       (Me(h) \/ GetIssue(h, NoSuchIssueId)) =>
         /\ resp'.status # 401 <=> ValidBearer(h)
         /\ ValidBearer(h) => resp'.uid = h.token.sub]_vars

\* C29 witness: a protected endpoint has served a user after every refresh
\* token ever issued was logged out.
C29_Witness ==
  /\ resp.op \in {"me", "getIssue"}
  /\ resp.status # 401
  /\ resp.uid # 0
  /\ issued # {}
  /\ dead = issued
  /\ \A r \in tokens : r.revoked

====
